---- MODULE Spec2Model ----
(***************************************************************************)
(* A model of incucyte_plotter_app.py: the CSV normaliser                  *)
(* (read_incucyte_csv with _coerce_time and _base_group_name), the         *)
(* aggregator (aggregate_mean_sd) and one run of the Streamlit script      *)
(* (Normalize -> Configure -> Aggregate -> Merge -> Render -> Export).     *)
(*                                                                         *)
(* Text is modelled as sequences of one-character strings, so that the     *)
(* regular expressions, lower-casing, numeric parsing and float formatting *)
(* of the source are computed rather than assumed.  Numbers are exact      *)
(* decimals held as an integer count of hundredths (5.9 is 590).           *)
(***************************************************************************)
EXTENDS Integers, Sequences, FiniteSets, TLC

(* ------------------------------ bounds -------------------------------- *)

\* Most data rows of an uploaded CSV.
MaxRows == 2
\* Most columns of a generated header.
MaxCols == 4
\* Longest column handed to _coerce_time on its own.
MaxLen == 3

\* Hundredths per unit: the fixed-point scale of every number of the model.
Scale == 10 * 10

(* ------------------------------- text --------------------------------- *)

DigitChars == <<"0", "1", "2", "3", "4", "5", "6", "7", "8", "9">>
UpperChars == <<"A", "B", "C", "D", "E", "F", "G", "H", "I", "J", "K", "L", "M",
                "N", "O", "P", "Q", "R", "S", "T", "U", "V", "W", "X", "Y", "Z">>
LowerChars == <<"a", "b", "c", "d", "e", "f", "g", "h", "i", "j", "k", "l", "m",
                "n", "o", "p", "q", "r", "s", "t", "u", "v", "w", "x", "y", "z">>

\* A sequence given as a function over 1..n, as a tuple.
Tuple(f) == f \o <<>>

IsDigit(c) == \E i \in 1..10 : DigitChars[i] = c
DigitVal(c) == (CHOOSE i \in 1..10 : DigitChars[i] = c) - 1

\* str.lower() on one character, and on a string.
LowerChar(c) ==
    IF \E i \in 1..26 : UpperChars[i] = c
    THEN LowerChars[CHOOSE i \in 1..26 : UpperChars[i] = c]
    ELSE c
Lower(s) == Tuple([i \in 1..Len(s) |-> LowerChar(s[i])])

AllDigits(s) == \A i \in 1..Len(s) : IsDigit(s[i])

\* The value of a digit string read as a decimal integer ("" is 0).
RECURSIVE DigitsVal(_)
DigitsVal(s) ==
    IF s = <<>> THEN 0
    ELSE 10 * DigitsVal(SubSeq(s, 1, Len(s) - 1)) + DigitVal(s[Len(s)])

\* The decimal digits of a natural number.
RECURSIVE NatDigits(_)
NatDigits(n) ==
    IF n < 10 THEN <<DigitChars[n + 1]>>
    ELSE NatDigits(n \div 10) \o <<DigitChars[(n % 10) + 1]>>

(* ------------------------------ numbers ------------------------------- *)

\* A float: finite (v hundredths), an infinity (v its sign) or NaN.
Fin(n) == [k |-> "fin", v |-> n]
Inf(sign) == [k |-> "inf", v |-> sign]
NaN == [k |-> "nan", v |-> 0]
IsNaN(x) == x.k = "nan"
IsFinite(x) == x.k = "fin"

sInf == <<"i", "n", "f">>
sNaN == <<"n", "a", "n">>

\* The fraction digits of a decimal literal as hundredths (exact for the one or
\* two fraction digits the inputs of the model carry).
FracVal(f) ==
    IF f = <<>> THEN 0
    ELSE IF Len(f) = 1 THEN 10 * DigitVal(f[1])
    ELSE 10 * DigitVal(f[1]) + DigitVal(f[2])

\* An unsigned decimal literal: digits, digits.digits, digits. or .digits
UnsignedVal(s) ==
    LET dots == {i \in 1..Len(s) : s[i] = "."} IN
    IF s = <<>> THEN NaN
    ELSE IF dots = {} THEN (IF AllDigits(s) THEN Fin(Scale * DigitsVal(s)) ELSE NaN)
    ELSE IF Cardinality(dots) > 1 THEN NaN
    ELSE LET d == CHOOSE i \in dots : TRUE
             ip == SubSeq(s, 1, d - 1)
             fp == SubSeq(s, d + 1, Len(s))
         IN IF AllDigits(ip) /\ AllDigits(fp) /\ Len(ip) + Len(fp) > 0
            THEN Fin(Scale * DigitsVal(ip) + FracVal(fp))
            ELSE NaN

\* What pandas' numeric parser makes of one string (pd.to_numeric with
\* errors="coerce", and read_csv's type inference): a signed decimal literal or
\* a signed "inf" is a number, anything else is NaN.
ParseFloat(s) ==
    LET signed == s # <<>> /\ s[1] \in {"-", "+"}
        sign == IF signed /\ s[1] = "-" THEN -1 ELSE 1
        body == IF signed THEN SubSeq(s, 2, Len(s)) ELSE s
        u == UnsignedVal(body)
    IN IF Lower(body) = sInf THEN Inf(sign)
       ELSE IF IsNaN(u) THEN NaN
       ELSE Fin(sign * u.v)

\* str() of a Python float: repr with at least one fraction digit.
FormatFloat(x) ==
    IF x.k = "nan" THEN sNaN
    ELSE IF x.k = "inf" THEN (IF x.v < 0 THEN <<"-">> ELSE <<>>) \o sInf
    ELSE LET a == IF x.v < 0 THEN -x.v ELSE x.v
             f == a % Scale
             fd == IF f % 10 = 0 THEN <<DigitChars[(f \div 10) + 1]>>
                   ELSE <<DigitChars[(f \div 10) + 1], DigitChars[(f % 10) + 1]>>
         IN (IF x.v < 0 THEN <<"-">> ELSE <<>>) \o NatDigits(a \div Scale) \o <<".">> \o fd

\* str() of a Python int.
FormatInt(x) ==
    LET a == IF x.v < 0 THEN -x.v ELSE x.v
    IN (IF x.v < 0 THEN <<"-">> ELSE <<>>) \o NatDigits(a \div Scale)

(* --------------------------- pandas columns --------------------------- *)

\* One cell of a pandas column: a number (of an int64 or a float64 column), a
\* string (of an object column) or a missing value.
NumCell(x, isint) == [t |-> "num", n |-> x, s |-> <<>>, int |-> isint]
StrCell(s) == [t |-> "str", n |-> NaN, s |-> s, int |-> FALSE]
NaCell == [t |-> "nan", n |-> NaN, s |-> <<>>, int |-> FALSE]

\* pd.to_numeric(col, errors="coerce") on one cell.
ToNumeric(c) ==
    IF c.t = "num" THEN c.n
    ELSE IF c.t = "str" THEN ParseFloat(c.s)
    ELSE NaN

\* col.astype(str) on one cell.
AsStr(c) ==
    IF c.t = "num" THEN (IF c.int THEN FormatInt(c.n) ELSE FormatFloat(c.n))
    ELSE IF c.t = "str" THEN c.s
    ELSE sNaN

\* pd.read_csv's type inference for one column of raw text cells (an empty
\* cell is missing): a column whose present cells are all numeric becomes
\* int64 (no cell missing, no fraction, no infinity) or float64; any other
\* column keeps its strings.
IsIntLiteral(s) ==
    /\ s # <<>>
    /\ AllDigits(IF s[1] \in {"-", "+"} THEN SubSeq(s, 2, Len(s)) ELSE s)
    /\ Len(s) > (IF s[1] \in {"-", "+"} THEN 1 ELSE 0)
ReadCsvColumn(raw) ==
    LET n == Len(raw)
        numeric == n > 0 /\ \A i \in 1..n : raw[i] = <<>> \/ ~IsNaN(ParseFloat(raw[i]))
        isint == \A i \in 1..n : IsIntLiteral(raw[i])
    IN Tuple([i \in 1..n |->
          IF raw[i] = <<>> THEN NaCell
          ELSE IF numeric THEN NumCell(ParseFloat(raw[i]), isint)
          ELSE StrCell(raw[i])])

(* ---------------------------- _coerce_time ---------------------------- *)

\* Series.str.extract(r"([0-9]*\.?[0-9]+)")[0] on one string: the leftmost
\* match, taken greedily: a run of digits, then a point and a further run of
\* digits when one follows; or a point followed by a run of digits.
DigitRunEnd(s, i) ==
    \* the last index of the maximal run of digits starting at i (i - 1 if none)
    LET stops == {j \in i..Len(s) : ~IsDigit(s[j])}
    IN IF stops = {} THEN Len(s)
       ELSE (CHOOSE j \in stops : \A k \in stops : j <= k) - 1
MatchStartsAt(s, i) ==
    \/ IsDigit(s[i])
    \/ s[i] = "." /\ i < Len(s) /\ IsDigit(s[i + 1])
ExtractNumber(s) ==
    LET starts == {i \in 1..Len(s) : MatchStartsAt(s, i)} IN
    IF starts = {} THEN <<>>
    ELSE LET i == CHOOSE a \in starts : \A b \in starts : a <= b
             e1 == DigitRunEnd(s, i)
             e2 == IF e1 < Len(s) /\ s[e1 + 1] = "." /\ e1 + 1 < Len(s) /\ IsDigit(s[e1 + 2])
                   THEN DigitRunEnd(s, e1 + 2)
                   ELSE e1
         IN SubSeq(s, i, e2)
HasNumber(s) == \E i \in 1..Len(s) : MatchStartsAt(s, i)

\* The fallback of _coerce_time on one cell: extract from the string form, then
\* pd.to_numeric (a cell with no match is missing).
ExtractCell(c) ==
    IF HasNumber(AsStr(c)) THEN ParseFloat(ExtractNumber(AsStr(c))) ELSE NaN

\* A per-value fallback (what the code does not do): keep the cells that parse
\* directly and extract only from the others.
CoerceTimePerValue(col) ==
    Tuple([i \in 1..Len(col) |->
        IF ~IsNaN(ToNumeric(col[i])) THEN ToNumeric(col[i]) ELSE ExtractCell(col[i])])

\* _coerce_time: the direct parse if that resolves every cell, else the
\* extraction on every cell.
_coerce_time(col) ==
    LET c == Tuple([i \in 1..Len(col) |-> ToNumeric(col[i])])
    IN IF \A i \in 1..Len(col) : ~IsNaN(c[i])
       THEN c
       ELSE Tuple([i \in 1..Len(col) |-> ExtractCell(col[i])])

(* -------------------------- _base_group_name -------------------------- *)

\* The suffix alternatives of r"^(.*)_(R\d+|Rep\d+|rep\d+)$".
IsRepTag(t) ==
    \/ Len(t) >= 2 /\ t[1] = "R" /\ AllDigits(SubSeq(t, 2, Len(t)))
    \/ /\ Len(t) >= 4
       /\ SubSeq(t, 1, 3) \in {<<"R", "e", "p">>, <<"r", "e", "p">>}
       /\ AllDigits(SubSeq(t, 4, Len(t)))

\* The places where the pattern can split a name into (base, "_", tag).  A tag
\* holds no underscore, so at most the last underscore qualifies.
RepSplits(name) ==
    {i \in 1..Len(name) : name[i] = "_" /\ IsRepTag(SubSeq(name, i + 1, Len(name)))}
HasRepSuffix(name) == RepSplits(name) # {}
SplitAt(name) == CHOOSE i \in RepSplits(name) : \A j \in RepSplits(name) : j <= i
RepBase(name) == SubSeq(name, 1, SplitAt(name) - 1)
RepTag(name) == SubSeq(name, SplitAt(name) + 1, Len(name))

\* A resolver that knows only the _R<digits> suffix.
BaseGroupNameROnly(colname) ==
    IF HasRepSuffix(colname) /\ RepTag(colname)[1] = "R" /\ AllDigits(Tail(RepTag(colname)))
    THEN RepBase(colname)
    ELSE colname

_base_group_name(colname) ==
    IF HasRepSuffix(colname) THEN RepBase(colname) ELSE colname

(* -------------------------------- names ------------------------------- *)

cTime == <<"t", "i", "m", "e">>
cGroup == <<"g", "r", "o", "u", "p">>
cReplicate == <<"r", "e", "p", "l", "i", "c", "a", "t", "e">>
cValue == <<"v", "a", "l", "u", "e">>
\* The sentinel replicate "R1".
R1 == <<"R", "1">>

\* The ValueError of read_incucyte_csv, line by line.
DetectMsg ==
    << "Could not detect wide or tidy format. Need either:",
       "  Wide: 'time' + one column per group",
       "  Tidy: time, group, (replicate), value" >>
\* The ValueError of DataFrame.melt when a column is already called value_name.
MeltMsg == << "value_name (value) cannot match an element in the DataFrame columns." >>

(* ------------------------------ read_csv ------------------------------ *)

\* An uploaded CSV: [header |-> column names, rows |-> rows of raw text cells].
\* pd.read_csv gives a frame [columns, data], data[j] the cells of column j.
ReadCsv(csv) ==
    [columns |-> csv.header,
     nrows |-> Len(csv.rows),
     data |-> Tuple([j \in 1..Len(csv.header) |->
                 ReadCsvColumn(Tuple([i \in 1..Len(csv.rows) |-> csv.rows[i][j]]))])]

\* cols_lower and lower_map of read_incucyte_csv (a later column wins a key).
ColsLower(df) == {Lower(df.columns[j]) : j \in 1..Len(df.columns)}
LowerMapIdx(df, key) ==
    CHOOSE j \in 1..Len(df.columns) :
        /\ Lower(df.columns[j]) = key
        /\ \A k \in 1..Len(df.columns) : Lower(df.columns[k]) = key => k <= j

\* 1, 2, ..., n as a sequence.
Iota(n) == Tuple([i \in 1..n |-> i])

(* -------------------------- read_incucyte_csv ------------------------- *)

\* A WIDE test that looks for the time column alone.
IsWideAnyTime(df) == cTime \in ColsLower(df)

\* The layout read_incucyte_csv takes a frame for (the two ifs and the raise).
IsWide(df) ==
    /\ cTime \in ColsLower(df)
    /\ ~({cGroup, cReplicate, cValue} \subseteq ColsLower(df))
IsTidy(df) == {cTime, cGroup, cValue} \subseteq ColsLower(df)
Classify(df) ==
    IF IsWide(df) THEN "WIDE" ELSE IF IsTidy(df) THEN "TIDY" ELSE "NONE"

\* value_cols_in_order: the indices of the columns other than time_col.
ValueColsInOrder(df) ==
    LET t == LowerMapIdx(df, cTime)
        NotTime(j) == df.columns[j] # df.columns[t]
    IN SelectSeq(Iota(Len(df.columns)), NotTime)

\* df.melt(id_vars="time", value_vars=value_cols_in_order): one row per
\* (series column, source row), column by column.  row and src (the source row
\* and the source column's index) are ghost fields: pandas keeps no such
\* record, the properties below use them to name a source observation.
Melt(df) ==
    LET vc == ValueColsInOrder(df)
        t == LowerMapIdx(df, cTime)
    IN Tuple([r \in 1..(Len(vc) * df.nrows) |->
          LET j == vc[((r - 1) \div df.nrows) + 1]
              i == ((r - 1) % df.nrows) + 1
          IN [time |-> df.data[t][i], col |-> df.columns[j],
              value |-> df.data[j][i], row |-> i, src |-> j]])

\* The loop that collects group_order: the base of each series column, in
\* header order, a base kept the first time it is seen.
RECURSIVE GroupOrderLoop(_, _)
GroupOrderLoop(names, order) ==
    IF names = <<>> THEN order
    ELSE LET base == _base_group_name(Head(names))
         IN GroupOrderLoop(Tail(names),
                IF \E k \in 1..Len(order) : order[k] = base
                THEN order ELSE Append(order, base))
GroupOrder(names) == GroupOrderLoop(names, <<>>)

\* A value of pd.Categorical(values, categories): itself when it is a category,
\* else missing.
NoGroup == <<"<NA>">>
Categorical(g, categories) ==
    IF \E k \in 1..Len(categories) : categories[k] = g THEN g ELSE NoGroup

\* The group and replicate np.where gives a melted row.
WideGroup(col) == IF HasRepSuffix(col) THEN RepBase(col) ELSE col
WideReplicate(col) == IF HasRepSuffix(col) THEN RepTag(col) ELSE R1

\* dropna(subset=["time", "value"]): a row stays when neither is NaN.
KeepRow(time, value) == ~IsNaN(time) /\ ~IsNaN(value)

\* The WIDE branch after the melt.
WideRecords(df) ==
    LET long == Melt(df)
        vc == ValueColsInOrder(df)
        group_order == GroupOrder(Tuple([k \in 1..Len(vc) |-> df.columns[vc[k]]]))
        time == _coerce_time(Tuple([r \in 1..Len(long) |-> long[r].time]))
        value == Tuple([r \in 1..Len(long) |-> ToNumeric(long[r].value)])
        Keep(r) == KeepRow(time[r], value[r])
        kept == SelectSeq(Iota(Len(long)), Keep)
    IN Tuple([r \in 1..Len(kept) |->
          [time |-> time[kept[r]],
           group |-> Categorical(WideGroup(long[kept[r]].col), group_order),
           replicate |-> WideReplicate(long[kept[r]].col),
           value |-> value[kept[r]],
           row |-> long[kept[r]].row, src |-> long[kept[r]].src]])

\* The TIDY branch.
TidyRecords(df) ==
    LET t == LowerMapIdx(df, cTime)
        g == LowerMapIdx(df, cGroup)
        v == LowerMapIdx(df, cValue)
        time == _coerce_time(df.data[t])
        value == Tuple([i \in 1..df.nrows |-> ToNumeric(df.data[v][i])])
        replicate == Tuple([i \in 1..df.nrows |->
                        IF cReplicate \notin ColsLower(df) THEN R1
                        ELSE AsStr(df.data[LowerMapIdx(df, cReplicate)][i])])
        Keep(i) == KeepRow(time[i], value[i])
        kept == SelectSeq(Iota(df.nrows), Keep)
    IN Tuple([r \in 1..Len(kept) |->
          [time |-> time[kept[r]],
           group |-> AsStr(df.data[g][kept[r]]),
           replicate |-> replicate[kept[r]],
           value |-> value[kept[r]],
           row |-> kept[r], src |-> v]])

\* Whether DataFrame.melt refuses the frame: a column is already called "value"
\* (after the rename of the time column) and this pandas raises for it.
MeltRaises(df, strict) ==
    /\ strict
    /\ \E j \in 1..Len(df.columns) : j # LowerMapIdx(df, cTime) /\ df.columns[j] = cValue

\* read_incucyte_csv: [ok, err, fmt, records, categories]; categories is the
\* ordered category list of group (WIDE; the TIDY group is a plain string).
Failure(fmt, msg) ==
    [ok |-> FALSE, err |-> msg, fmt |-> fmt, records |-> <<>>, categories |-> <<>>]
read_incucyte_csv(csv, strict) ==
    LET df == ReadCsv(csv) IN
    IF IsWide(df) THEN
        IF MeltRaises(df, strict) THEN Failure("WIDE", MeltMsg)
        ELSE LET vc == ValueColsInOrder(df)
             IN [ok |-> TRUE, err |-> <<>>, fmt |-> "WIDE",
                 records |-> WideRecords(df),
                 categories |-> GroupOrder(Tuple([k \in 1..Len(vc) |-> df.columns[vc[k]]]))]
    ELSE IF IsTidy(df) THEN
        [ok |-> TRUE, err |-> <<>>, fmt |-> "TIDY",
         records |-> TidyRecords(df), categories |-> <<>>]
    ELSE Failure("NONE", DetectMsg)

(* ------------------------------ ordering ------------------------------ *)

\* The characters of the model in code-point order.
AsciiOrder ==
    <<"+", "-", ".">> \o DigitChars \o <<"<", ">">> \o UpperChars \o <<"_">> \o LowerChars
CharCode(c) == CHOOSE i \in 1..Len(AsciiOrder) : AsciiOrder[i] = c

\* a < b for strings (Python's str comparison).
StrLess(a, b) ==
    \E i \in 1..(Len(b)) :
        /\ \A k \in 1..(i - 1) : k <= Len(a) /\ a[k] = b[k]
        /\ \/ i = Len(a) + 1
           \/ i <= Len(a) /\ CharCode(a[i]) < CharCode(b[i])

\* x < y for floats that are not NaN.
NumRank(x) == IF x.k = "inf" THEN x.v ELSE 0
NumLess(x, y) ==
    \/ NumRank(x) < NumRank(y)
    \/ NumRank(x) = 0 /\ NumRank(y) = 0 /\ x.v < y.v

\* The elements of a finite set in the (total) order Less gives.
SortSet(S, Less(_, _)) ==
    [i \in 1..Cardinality(S) |->
        CHOOSE a \in S : Cardinality({c \in S : Less(c, a)}) = i - 1]

Range(s) == {s[i] : i \in 1..Len(s)}

(* -------------------------- aggregate_mean_sd ------------------------- *)

\* np.floor(time / interval_hours) * interval_hours; an infinite time stays
\* infinite.
TimeBin(t, interval) ==
    IF ~IsFinite(t) THEN t ELSE Fin((t.v \div interval) * interval)

\* The grouping time of a record: the bucket when interval_hours is a positive
\* number, the raw time when it is None (held as 0).
TimeKey(t, interval_hours) ==
    IF interval_hours > 0 THEN TimeBin(t, interval_hours) ELSE t

RECURSIVE SumSeq(_)
SumSeq(s) == IF s = <<>> THEN 0 ELSE Head(s) + SumSeq(Tail(s))

\* A statistic as an exact fraction of hundredths; missing is NoStat.
Frac(a, b) == [num |-> a, den |-> b]
NoStat == [num |-> 0, den |-> 0]

\* The keys groupby(["group", time_col]) yields: the keys that occur (a missing
\* group is left out), and, for a categorical group with observed=False, every
\* category paired with every grouping time.
GroupKeys(records, categories, interval_hours, observed) ==
    LET seen == {<<records[r].group, TimeKey(records[r].time, interval_hours)>> :
                    r \in {q \in 1..Len(records) : records[q].group # NoGroup}}
        times == {TimeKey(records[r].time, interval_hours) : r \in 1..Len(records)}
    IN IF categories # <<>> /\ ~observed
       THEN Range(categories) \X times
       ELSE seen

\* .agg(mean="mean", sd="std", n="count") for one key: the mean, the sample
\* variance under the root of sd (missing unless n > 1) and the count.
StatsRow(records, key, interval_hours) ==
    LET idx == SelectSeq(Iota(Len(records)),
                   LAMBDA r : /\ records[r].group = key[1]
                              /\ TimeKey(records[r].time, interval_hours) = key[2])
        n == Len(idx)
        sum == SumSeq([k \in 1..n |-> records[idx[k]].value.v])
        sumsq == SumSeq([k \in 1..n |-> records[idx[k]].value.v * records[idx[k]].value.v])
    IN [group |-> key[1], time |-> key[2],
        mean |-> IF n = 0 THEN NoStat ELSE Frac(sum, n),
        sd2 |-> IF n <= 1 THEN NoStat ELSE Frac(n * sumsq - sum * sum, n * (n - 1)),
        n |-> n]

\* aggregate_mean_sd: one row per key, sorted by group (category order for a
\* categorical group, string order otherwise) and then by time.
aggregate_mean_sd(tidy, interval_hours, observed) ==
    LET cats == tidy.categories
        CatIdx(g) == CHOOSE k \in 1..Len(cats) : cats[k] = g
        GroupLess(a, b) == IF cats # <<>> THEN CatIdx(a) < CatIdx(b) ELSE StrLess(a, b)
        KeyLess(a, b) == GroupLess(a[1], b[1]) \/ (a[1] = b[1] /\ NumLess(a[2], b[2]))
        keys == SortSet(GroupKeys(tidy.records, cats, interval_hours, observed), KeyLess)
    IN [k \in 1..Len(keys) |-> StatsRow(tidy.records, keys[k], interval_hours)]

(* ------------------------------- inputs ------------------------------- *)

nTime == <<"T", "i", "m", "e">>
nReplicate == <<"R", "e", "p", "l", "i", "c", "a", "t", "e">>
nValue == <<"V", "a", "l", "u", "e">>
nA == <<"A">>
nB == <<"B">>
nA_R1 == <<"A", "_", "R", "1">>
nA_R2 == <<"A", "_", "R", "2">>
nA_Rep1 == <<"A", "_", "R", "e", "p", "1">>
nB_rep2 == <<"B", "_", "r", "e", "p", "2">>
nA_r1 == <<"A", "_", "r", "1">>

\* The sequences of 1..n distinct names of S, no two equal up to case.
Headers(S, n) ==
    UNION {{h \in [1..k -> S] :
               \A i, j \in 1..k : i # j => Lower(h[i]) # Lower(h[j])} : k \in 1..n}

\* The sequences of 0..n elements of S.
SeqsUpTo(S, n) == UNION {[1..k -> S] : k \in 0..n}

\* The text cell a generated single-row CSV holds in column j, by column name.
DefaultCell(name, j) ==
    IF Lower(name) = cTime THEN <<"0">>
    ELSE IF Lower(name) = cGroup THEN nA
    ELSE IF Lower(name) = cReplicate THEN R1
    ELSE <<DigitChars[j + 1]>>
OneRow(h) == [header |-> h, rows |-> <<[j \in 1..Len(h) |-> DefaultCell(h[j], j)]>>]

\* Any arrangement of the recognised names (and a series name), one data row.
HeaderNames == {nTime, cGroup, nReplicate, cValue, nValue, nA}
HeaderFamily == {OneRow(h) : h \in Headers(HeaderNames, MaxCols)}

\* A time column and any arrangement of series names, one data row.
SeriesNames == {nA, nB, nA_R1, nA_R2, nA_Rep1, nB_rep2, nA_r1}
SeriesFamily == {OneRow(<<nTime>> \o h) : h \in Headers(SeriesNames, MaxCols - 1)}

\* One series and up to MaxRows rows over the time texts.
TimeCells ==
    { <<"8">>, <<"5", ".", "9">>, <<"7", ".", "9", "9">>, <<"-", "5", ".", "9">>,
      <<"1", "2", "h">>, <<"b", "a", "d">>, <<>>, sInf }
TimeFamily ==
    {[header |-> <<nTime, nA>>, rows |-> rs] :
        rs \in SeqsUpTo(TimeCells \X {<<"1">>, <<"x">>}, MaxRows)}

\* Two series (plain, replicates of one group, a plain name beside its own
\* replicate) and up to MaxRows rows; a value is a digit of its column or text.
WideHeaders == {<<nTime, nA, nB>>, <<nTime, nA_R1, nA_R2>>, <<nTime, nA, nA_R1>>}
WideFamily ==
    {[header |-> h, rows |-> rs] :
        h \in WideHeaders,
        rs \in SeqsUpTo({<<"0">>, <<"4">>} \X {<<"1">>, <<"x">>} \X {<<"3">>, <<"x">>},
                        MaxRows)}

\* The four tidy columns and up to MaxRows rows.
TidyFamily ==
    {[header |-> <<nTime, cGroup, nReplicate, nValue>>, rows |-> rs] :
        rs \in SeqsUpTo({<<"0">>, <<"4", "h">>, <<>>} \X {nA, nB} \X {R1, <<"R", "2">>}
                            \X {<<"1">>, <<"x">>},
                        MaxRows)}

Uploads == HeaderFamily \cup SeriesFamily \cup TimeFamily \cup WideFamily \cup TidyFamily

\* No file in the uploader.
NoFile == [header |-> <<>>, rows |-> <<>>]

\* The pandas the app runs on: DataFrame.melt raises for a column called
\* "value" from 2.0 on (a FutureWarning before), groupby's observed defaults
\* to True from 3.0 on (False before).
Pandas == {"1.x", "2.x", "3.x"}
MeltStrict(p) == p # "1.x"
ObservedDefault(p) == p = "3.x"

(* --------------------------- the script run --------------------------- *)

VARIABLES
    pandas,       \* the pandas under the app
    uploaded,     \* the file in st.file_uploader (NoFile: none)
    pc,           \* where the run of the script is
    tidy,         \* read_incucyte_csv's result
    groups,       \* the unique groups of tidy, as strings, by first appearance
    interval_hours, \* the binning interval in hundredths of an hour (0: None)
    edited_group_df, \* the rows of the data editor: <<group, display_name, color>>
    stats,        \* the stats table, from the merge on with the display columns
    tidy_merged,  \* tidy with display_name and color
    shown,        \* what the page shows, in order: [kind, body]
    col,          \* _coerce_time on its own: the column handed in
    coerced       \* _coerce_time on its own: the column returned

vars == <<pandas, uploaded, pc, tidy, groups, interval_hours, edited_group_df,
          stats, tidy_merged, shown, col, coerced>>

\* The run has not computed this yet.
Unset == <<>>
NoTidy == [ok |-> FALSE, err |-> <<>>, fmt |-> "NONE", records |-> <<>>,
           categories |-> <<>>]

\* default_colors.
default_colors ==
    << "#1f77b4", "#ff7f0e", "#2ca02c", "#d62728", "#9467bd",
       "#8c564b", "#e377c2", "#7f7f7f", "#bcbd22", "#17becf" >>
\* A display attribute the user cleared (None) and one a left merge found no
\* row for (NaN).
None == "None"
NoName == <<"<NaN>">>
NoColor == "nan"

Out(kind, body) == [kind |-> kind, body |-> body]

Init ==
    /\ pandas \in Pandas
    /\ uploaded \in Uploads \cup {NoFile}
    /\ pc = "start"
    /\ tidy = NoTidy
    /\ groups = <<>>
    /\ interval_hours = 0
    /\ edited_group_df = <<>>
    /\ stats = Unset
    /\ tidy_merged = Unset
    /\ shown = <<>>
    /\ col = <<>>
    /\ coerced = <<>>

\* else: st.info("Upload a CSV to begin.")
NoUpload ==
    /\ pc = "start"
    /\ uploaded = NoFile
    /\ shown' = Append(shown, Out("info", <<"Upload a CSV to begin.">>))
    /\ pc' = "idle"
    /\ UNCHANGED <<col, coerced, pandas, uploaded, tidy, groups, interval_hours, edited_group_df,
                   stats, tidy_merged>>

\* pd.unique(tidy["group"].astype(str)): the groups in order of first
\* appearance.
RECURSIVE UniqueLoop(_, _)
UniqueLoop(s, acc) ==
    IF s = <<>> THEN acc
    ELSE UniqueLoop(Tail(s), IF Head(s) \in Range(acc) THEN acc ELSE Append(acc, Head(s)))
Unique(s) == UniqueLoop(s, <<>>)

\* An except branch that reports the error and lets the script run on.
AfterReadErrorNoStop == "parsed"
\* Where the run goes from the except branch: st.stop() ends it.
AfterReadError == "stopped"

\* The try block: read_incucyte_csv(uploaded); on any exception st.error with
\* the exception's text and st.stop(); else the preview and the group list.
Normalize ==
    /\ pc = "start"
    /\ uploaded # NoFile
    /\ \E r \in {read_incucyte_csv(uploaded, MeltStrict(pandas))} :
       IF ~r.ok
       THEN /\ shown' = Append(shown, Out("error", <<"Error reading file: ">> \o r.err))
            /\ pc' = AfterReadError
            /\ UNCHANGED <<tidy, groups>>
       ELSE /\ tidy' = r
            /\ shown' = Append(shown,
                   Out("preview", SubSeq(r.records, 1, IF Len(r.records) < 5
                                                       THEN Len(r.records) ELSE 5)))
            /\ groups' = Unique([i \in 1..Len(r.records) |-> r.records[i].group])
            /\ pc' = "parsed"
    /\ UNCHANGED <<col, coerced, pandas, uploaded, interval_hours, edited_group_df, stats, tidy_merged>>

\* The binning intervals the user may enter (min_value=0.0; 0 = no binning).
Intervals == {0, 4 * Scale}

\* group_df, and what the user may make of it in the data editor
\* (num_rows="dynamic"): leave it, delete the first row, clear the first row's
\* colour, or add a second row for the first row's group.
GroupDf(gs) == [i \in 1..Len(gs) |-> <<gs[i], gs[i], default_colors[i]>>]
Edits(df) ==
    {df} \cup
    (IF df = <<>> THEN {}
     ELSE { Tail(df),
            <<<<df[1][1], df[1][2], None>>>> \o Tail(df),
            Append(df, <<df[1][1], <<"X">>, None>>) })

\* The sidebar: the interval (interval if interval > 0 else None) and the
\* edited group table.  default_colors[:len(groups)] is shorter than groups
\* past ten groups, and pd.DataFrame then raises.
Configure ==
    /\ pc = "parsed"
    /\ IF Len(groups) > Len(default_colors)
       THEN /\ pc' = "crashed"
            /\ UNCHANGED <<interval_hours, edited_group_df>>
       ELSE /\ \E interval \in Intervals :
                 interval_hours' = (IF interval > 0 THEN interval ELSE 0)
            /\ edited_group_df' \in Edits(GroupDf(groups))
            /\ pc' = "configured"
    /\ UNCHANGED <<col, coerced, pandas, uploaded, tidy, groups, stats, tidy_merged, shown>>

\* stats = aggregate_mean_sd(tidy, interval_hours=interval_hours)
Aggregate ==
    /\ pc = "configured"
    /\ stats' = aggregate_mean_sd(tidy, interval_hours, ObservedDefault(pandas))
    /\ pc' = "aggregated"
    /\ UNCHANGED <<col, coerced, pandas, uploaded, tidy, groups, interval_hours, edited_group_df,
                   tidy_merged, shown>>

\* The display columns merge(how="left", on="group") gives a row of group g.
Lookup(g, mapping) ==
    IF \E k \in 1..Len(mapping) : mapping[k][1] = g
    THEN LET k == CHOOSE q \in 1..Len(mapping) : mapping[q][1] = g
         IN [display_name |-> mapping[k][2], color |-> mapping[k][3]]
    ELSE [display_name |-> NoName, color |-> NoColor]

\* validate="many_to_one": the merge keys of the right frame are unique.
ManyToOne(mapping) ==
    \A i, j \in 1..Len(mapping) : mapping[i][1] = mapping[j][1] => i = j

\* The two merges; a MergeError ends the run.
MergeRow(row, mapping) ==
    [f \in DOMAIN row \cup {"display_name", "color"} |->
        IF f \in DOMAIN row THEN row[f] ELSE Lookup(row.group, mapping)[f]]
Merge ==
    /\ pc = "aggregated"
    /\ IF ~ManyToOne(edited_group_df)
       THEN /\ pc' = "crashed"
            /\ UNCHANGED <<stats, tidy_merged>>
       ELSE /\ stats' = [k \in 1..Len(stats) |-> MergeRow(stats[k], edited_group_df)]
            /\ tidy_merged' = [k \in 1..Len(tidy.records) |->
                                  MergeRow(tidy.records[k], edited_group_df)]
            /\ pc' = "merged"
    /\ UNCHANGED <<col, coerced, pandas, uploaded, tidy, groups, interval_hours, edited_group_df, shown>>

\* color = sub["color"].iloc[0] or None
OrNone(c) == IF c = None \/ c = "" THEN None ELSE c

\* Whether matplotlib rejects a colour: a NaN is no colour specification, and
\* Line2D raises ValueError for it (None is the default colour).
BadColor(c) == c = NoColor

\* The groups of groupby("group") on a merged frame, in key order: the group is
\* a plain string column after the merge, and a missing key is left out.
PlotGroups(rows) ==
    SortSet({rows[k].group : k \in 1..Len(rows)} \ {NoGroup}, StrLess)
FirstRow(rows, Test(_)) == rows[CHOOSE k \in 1..Len(rows) :
                                   Test(rows[k]) /\ \A q \in 1..(k - 1) : ~Test(rows[q])]

\* name = sub["display_name"].iloc[0]
Label(row) == row.display_name

\* The lines of the mean plot: for each group its first row's display name and
\* colour, and whether the SD band is drawn (error_choice is left at "SD").
MeanLines(rows) ==
    LET gs == PlotGroups(rows) IN
    [i \in 1..Len(gs) |->
        LET first == FirstRow(rows, LAMBDA r : r.group = gs[i])
        IN [group |-> gs[i], label |-> Label(first), color |-> OrNone(first.color),
            band |-> \E k \in 1..Len(rows) : rows[k].group = gs[i] /\ rows[k].sd2 # NoStat]]

\* The loop over stats.groupby("group") and st.pyplot(fig); ax.plot raises on a
\* colour matplotlib rejects, and the run ends with nothing drawn.
RenderMean ==
    /\ pc = "merged"
    /\ \E lines \in {MeanLines(stats)} :
       IF \E i \in 1..Len(lines) : BadColor(lines[i].color)
       THEN /\ pc' = "crashed"
            /\ UNCHANGED shown
       ELSE /\ shown' = Append(shown, Out("meanplot", lines))
            /\ pc' = "meanplot"
    /\ UNCHANGED <<col, coerced, pandas, uploaded, tidy, groups, interval_hours, edited_group_df,
                   stats, tidy_merged>>

\* The lines of the replicate plot, one per (group, replicate) in key order.
PairLess(a, b) == StrLess(a[1], b[1]) \/ (a[1] = b[1] /\ StrLess(a[2], b[2]))
ReplicateLines(rows) ==
    LET ps == SortSet({<<rows[k].group, rows[k].replicate>> :
                          k \in {q \in 1..Len(rows) : rows[q].group # NoGroup}}, PairLess)
    IN [i \in 1..Len(ps) |->
          LET first == FirstRow(rows, LAMBDA r : <<r.group, r.replicate>> = ps[i])
          IN [group |-> ps[i][1], replicate |-> ps[i][2],
              label |-> Label(first), color |-> OrNone(first.color)]]

\* The loop over tidy_merged.groupby(["group", "replicate"]), the legend with
\* one entry per label, and st.pyplot(fig2).
RenderReplicates ==
    /\ pc = "meanplot"
    /\ \E lines \in {ReplicateLines(tidy_merged)} :
       IF \E i \in 1..Len(lines) : BadColor(lines[i].color)
       THEN /\ pc' = "crashed"
            /\ UNCHANGED shown
       ELSE /\ shown' = Append(shown,
                   Out("repplot",
                       [lines |-> lines,
                        legend |-> Unique([i \in 1..Len(lines) |-> lines[i].label])]))
            /\ pc' = "repplot"
    /\ UNCHANGED <<col, coerced, pandas, uploaded, tidy, groups, interval_hours, edited_group_df,
                   stats, tidy_merged>>

\* The summary table and the download button over stats.to_csv.
Export ==
    /\ pc = "repplot"
    /\ shown' = shown \o
           << Out("summary", <<"group", "display_name", "time", "mean", "sd", "n">>),
              Out("download", <<"incucyte_summary_mean_sd.csv">>) >>
    /\ pc' = "done"
    /\ UNCHANGED <<col, coerced, pandas, uploaded, tidy, groups, interval_hours, edited_group_df,
                   stats, tidy_merged>>

Next ==
    \/ NoUpload
    \/ Normalize
    \/ Configure
    \/ Aggregate
    \/ Merge
    \/ RenderMean
    \/ RenderReplicates
    \/ Export

Spec == Init /\ [][Next]_vars

(* ------------------- _coerce_time on its own ------------------- *)

\* The columns pd.read_csv makes of 1..MaxLen time texts.
InitCoerce ==
    /\ col \in {ReadCsvColumn(raw) : raw \in SeqsUpTo(TimeCells, MaxLen) \ {<<>>}}
    /\ coerced = <<>>
    /\ pc = "column"
    /\ pandas = "3.x"
    /\ uploaded = NoFile
    /\ tidy = NoTidy
    /\ groups = <<>>
    /\ interval_hours = 0
    /\ edited_group_df = <<>>
    /\ stats = Unset
    /\ tidy_merged = Unset
    /\ shown = <<>>

CoerceTime ==
    /\ pc = "column"
    /\ coerced' = _coerce_time(col)
    /\ pc' = "coerced"
    /\ UNCHANGED <<col, pandas, uploaded, tidy, groups, interval_hours,
                   edited_group_df, stats, tidy_merged, shown>>

NextCoerce == CoerceTime

SpecCoerce == InitCoerce /\ [][NextCoerce]_vars

(* ------------------------------ properties --------------------------- *)

\* The lower-cased column names of the uploaded file.
HeaderLower == {Lower(uploaded.header[j]) : j \in 1..Len(uploaded.header)}
\* The index of the uploaded file's column called key (up to case), and the
\* indices of its other columns than time.
SourceCol(key) == CHOOSE j \in 1..Len(uploaded.header) : Lower(uploaded.header[j]) = key
SourceSeries == {j \in 1..Len(uploaded.header) : Lower(uploaded.header[j]) # cTime}
SourceRows == 1..Len(uploaded.rows)
\* The run is past aggregate_mean_sd.
Aggregated == pc \in {"aggregated", "merged", "meanplot", "repplot", "done"}
\* The run has just left read_incucyte_csv (the table does not change after).
ReadDone == pc \in {"parsed", "stopped"}
\* The time read_incucyte_csv resolves source row i to, and the value it
\* resolves the cell of row i and column j to.
SourceTimes == _coerce_time(ReadCsv(uploaded).data[SourceCol(cTime)])
SourceValue(i, j) == ToNumeric(ReadCsv(uploaded).data[j][i])
Resolved(i, j) == ~IsNaN(SourceTimes[i]) /\ ~IsNaN(SourceValue(i, j))
RecordsOf(i, j) ==
    {r \in 1..Len(tidy.records) : tidy.records[r].row = i /\ tidy.records[r].src = j}

\* C1: a file with time, group and value columns and no replicate column is
\* read as one record per source row whose time and value resolve, the group
\* that of the row's group cell and the replicate "R1".
C1_TidyWithoutReplicate ==
    (ReadDone /\ {cTime, cGroup, cValue} \subseteq HeaderLower /\ cReplicate \notin HeaderLower)
    => /\ tidy.ok
       /\ \A i \in SourceRows :
             Resolved(i, SourceCol(cValue)) =>
                \E r \in 1..Len(tidy.records) :
                    /\ tidy.records[r].row = i
                    /\ \A q \in 1..Len(tidy.records) : tidy.records[q].row = i => q = r
       /\ \A r \in 1..Len(tidy.records) :
             /\ tidy.records[r].replicate = R1
             /\ tidy.records[r].group = uploaded.rows[tidy.records[r].row][SourceCol(cGroup)]
             /\ tidy.records[r].value = SourceValue(tidy.records[r].row, SourceCol(cValue))

\* C2: in a WIDE table every (row, series column) whose time and value resolve
\* is exactly one record holding the cell's value, and two records of different
\* series columns differ in (group, replicate), so that a pivot on group x
\* replicate gives every series column back.
C2_WideRoundTrip ==
    (pc = "parsed" /\ tidy.fmt = "WIDE")
    => /\ \A i \in SourceRows, j \in SourceSeries :
             Resolved(i, j) =>
                /\ Cardinality(RecordsOf(i, j)) = 1
                /\ \A r \in RecordsOf(i, j) : tidy.records[r].value = SourceValue(i, j)
       /\ \A r, q \in 1..Len(tidy.records) :
             tidy.records[r].src # tidy.records[q].src =>
                <<tidy.records[r].group, tidy.records[r].replicate>>
                    # <<tidy.records[q].group, tidy.records[q].replicate>>

\* The grouping key of a tidy record under the interval of the run.
RecordKey(r) == <<tidy.records[r].group, TimeKey(tidy.records[r].time, interval_hours)>>
StatsKey(k) == <<stats[k].group, stats[k].time>>

\* C3: the stats table has exactly one row for each (group, time-or-bucket)
\* that occurs among the tidy records, no other row, and each row's n is the
\* number of tidy records of its key, so n >= 1.
C3_OneRowPerKey ==
    Aggregated
    => /\ \A r \in 1..Len(tidy.records) :
             Cardinality({k \in 1..Len(stats) : StatsKey(k) = RecordKey(r)}) = 1
       /\ \A k \in 1..Len(stats) :
             /\ \E r \in 1..Len(tidy.records) : RecordKey(r) = StatsKey(k)
             /\ stats[k].n = Cardinality({r \in 1..Len(tidy.records) : RecordKey(r) = StatsKey(k)})
             /\ stats[k].n >= 1

C5_FiniteAndDropped ==
    pc = "parsed"
    => /\ \A r \in 1..Len(tidy.records) :
             IsFinite(tidy.records[r].time) /\ IsFinite(tidy.records[r].value)
       /\ \A i \in SourceRows :
             \A j \in (IF tidy.fmt = "WIDE" THEN SourceSeries ELSE {SourceCol(cValue)}) :
                (RecordsOf(i, j) = {}) <=> ~Resolved(i, j)

\* A string that matches [0-9]*\.?[0-9]+ as a whole.
IsDecimal(e) ==
    /\ e # <<>>
    /\ \A i \in 1..Len(e) : IsDigit(e[i]) \/ e[i] = "."
    /\ Cardinality({i \in 1..Len(e) : e[i] = "."}) <= 1
    /\ IsDigit(e[Len(e)])
\* e is the first decimal-number substring of s: the longest one at the
\* leftmost place one starts.
IsFirstDecimal(e, s) ==
    \E i, j \in 1..Len(s) :
        /\ i <= j
        /\ e = SubSeq(s, i, j)
        /\ IsDecimal(e)
        /\ \A a, c \in 1..Len(s) :
              (a <= c /\ IsDecimal(SubSeq(s, a, c))) => (a > i \/ (a = i /\ c <= j))
HasDecimal(s) == \E i, j \in 1..Len(s) : i <= j /\ IsDecimal(SubSeq(s, i, j))

\* C6: _coerce_time returns a column of the length of its input; when every
\* value parses directly it is those numbers (a numeric column unchanged);
\* otherwise every value, those that parse directly too, is the number parsed
\* from the first decimal-number substring of its string form, or missing
\* when it has none.  Coercing the returned column again returns it unchanged.
C6_AllOrNothing ==
    pc = "coerced"
    => /\ Len(coerced) = Len(col)
       /\ IF \A i \in 1..Len(col) : ~IsNaN(ToNumeric(col[i]))
          THEN \A i \in 1..Len(col) :
                  /\ coerced[i] = ToNumeric(col[i])
                  /\ col[i].t = "num" => coerced[i] = col[i].n
          ELSE \A i \in 1..Len(col) :
                  IF HasDecimal(AsStr(col[i]))
                  THEN \E e \in {SubSeq(AsStr(col[i]), a, c) : a, c \in 1..Len(AsStr(col[i]))} :
                          IsFirstDecimal(e, AsStr(col[i])) /\ coerced[i] = ParseFloat(e)
                  ELSE IsNaN(coerced[i])
       /\ _coerce_time([i \in 1..Len(coerced) |->
                           IF IsNaN(coerced[i]) THEN NaCell
                           ELSE NumCell(coerced[i], FALSE)]) = coerced
\* A column in which one value parses directly and another does not: the one
\* that parses directly (-5.9) went through the extraction too (5.9).
C6_Witness ==
    /\ pc = "coerced"
    /\ \E i, j \in 1..Len(col) :
          /\ IsNaN(ToNumeric(col[j]))
          /\ ~IsNaN(ToNumeric(col[i]))
          /\ coerced[i] # ToNumeric(col[i])

\* The series columns' names in header order, and the base of a name: the name
\* without a trailing _R<digits>, _Rep<digits> or _rep<digits>.
SourceSeriesNames == SelectSeq(uploaded.header, LAMBDA n : Lower(n) # cTime)
StrippedBase(n) ==
    IF \E i \in 1..Len(n) : n[i] = "_" /\ IsRepTag(SubSeq(n, i + 1, Len(n)))
    THEN SubSeq(n, 1, (CHOOSE i \in 1..Len(n) :
                          n[i] = "_" /\ IsRepTag(SubSeq(n, i + 1, Len(n)))) - 1)
    ELSE n
FirstAt(base) ==
    CHOOSE k \in 1..Len(SourceSeriesNames) :
        /\ StrippedBase(SourceSeriesNames[k]) = base
        /\ \A q \in 1..(k - 1) : StrippedBase(SourceSeriesNames[q]) # base

\* C7: the category list of group of a WIDE table is the bases of the series
\* columns in header order, each base once at its first occurrence, and every
\* record's group is one of them.
C7_GroupOrder ==
    (pc = "parsed" /\ tidy.fmt = "WIDE")
    => LET cats == tidy.categories IN
       /\ Range(cats) = {StrippedBase(SourceSeriesNames[k]) : k \in 1..Len(SourceSeriesNames)}
       /\ \A a, c \in 1..Len(cats) : a < c => FirstAt(cats[a]) < FirstAt(cats[c])
       /\ \A r \in 1..Len(tidy.records) : tidy.records[r].group \in Range(cats)
\* Three series columns of two bases, the second base first: B, A_Rep1, A_R2.
C7_Witness ==
    /\ pc = "parsed"
    /\ tidy.fmt = "WIDE"
    /\ tidy.categories = <<nB, nA>>
    /\ Len(SourceSeriesNames) = 3
    /\ \E r \in 1..Len(tidy.records) : tidy.records[r].replicate = <<"R", "e", "p", "1">>

\* C8: with a positive interval every record is counted in the one stats row
\* of its group whose time b is a multiple of the interval with
\* b <= time < b + interval; with no interval, in the row of its raw time.
InBucket(b, t) ==
    IF interval_hours > 0
    THEN /\ IsFinite(b) /\ IsFinite(t)
         /\ b.v % interval_hours = 0
         /\ b.v <= t.v /\ t.v < b.v + interval_hours
    ELSE b = t
C8_BucketCoversTime ==
    Aggregated
    => \A r \in 1..Len(tidy.records) :
          \E k \in 1..Len(stats) :
             /\ stats[k].group = tidy.records[r].group
             /\ InBucket(stats[k].time, tidy.records[r].time)
             /\ stats[k].n = Cardinality({q \in 1..Len(tidy.records) :
                                 /\ tidy.records[q].group = stats[k].group
                                 /\ InBucket(stats[k].time, tidy.records[q].time)})

\* C9: when the file has neither layout (no time column), the page shows the
\* error with the error's own text and nothing else, and the run has ended:
\* nothing was configured, aggregated, merged, drawn or exported.
C9_FailureEndsRun ==
    (pc \notin {"start", "column", "coerced"} /\ uploaded # NoFile /\ cTime \notin HeaderLower)
    => /\ pc = "stopped"
       /\ shown = <<Out("error", <<"Error reading file: ">> \o DetectMsg)>>
       /\ ~tidy.ok
       /\ edited_group_df = <<>>
       /\ stats = Unset
       /\ tidy_merged = Unset
       /\ ~ENABLED Next
\* A run that st.stop() ended on the format-detection error.
C9_Witness ==
    /\ pc = "stopped"
    /\ shown[1].body = <<"Error reading file: ">> \o DetectMsg

\* The groups of the merged tables that have no row in the edited mapping.
Unmapped ==
    {g \in {stats[k].group : k \in 1..Len(stats)} \cup
           {tidy_merged[k].group : k \in 1..Len(tidy_merged)} :
        \A k \in 1..Len(edited_group_df) : edited_group_df[k][1] # g}
Plots == {shown[k] : k \in {q \in 1..Len(shown) : shown[q].kind \in {"meanplot", "repplot"}}}
PlotLines(p) == IF p.kind = "meanplot" THEN p.body ELSE p.body.lines

\* C10: when a group of the merged tables has no row in the edited mapping,
\* its rows get a null display_name and color, the run still completes, and
\* the charts label the group by its raw identifier, in the default colour.
C10_JoinMismatchDegrades ==
    (pc \in {"merged", "meanplot", "repplot", "done", "crashed"}
        /\ ManyToOne(edited_group_df) /\ Unmapped # {})
    => /\ \A k \in 1..Len(stats) :
             stats[k].group \in Unmapped =>
                stats[k].display_name = NoName /\ stats[k].color = NoColor
       /\ pc # "crashed"
       /\ \A p \in Plots : \A i \in 1..Len(PlotLines(p)) :
             PlotLines(p)[i].group \in Unmapped =>
                PlotLines(p)[i].label = PlotLines(p)[i].group /\ PlotLines(p)[i].color = None

====
